---- MODULE Spec2Model ----
(***************************************************************************)
(* The identity-gated vote-casting workflow of secure-vote-face-chain:     *)
(* one mounted useVoting hook (the voter's page), the VotingContract       *)
(* facade it calls, and the vote ledger behind the facade.                 *)
(*                                                                         *)
(* The hook's handlers are one action each.  handleCastVote is async: it   *)
(* suspends at `await hasUserVoted` and at `await castVote`, so it is one  *)
(* action per resumption, and an invocation in flight keeps the election   *)
(* and candidate its closure captured when it was invoked (the signed-in   *)
(* user does not change while the page is mounted).                        *)
(*                                                                         *)
(* VotingService and ElectionService (under ./voting) are imported by      *)
(* VotingContract but their files are not among the sources: the ledger    *)
(* operations are modelled from the design's section 4.3.  The fetched     *)
(* election list is presentation and is not state of the model; of the     *)
(* toasts only those of handleCastVote are counted.                        *)
(***************************************************************************)
EXTENDS Integers, Sequences, FiniteSets, Bags, TLC

VARIABLES
    user,               \* useAuth().user of the page: a voter id or Null
    step,               \* useState(1): workflow step 1..6
    isLoading,          \* useState(true)
    fetching,           \* the mount effect's getElections() is still pending
    selectedElection,   \* useState(null): id of the selected Election
    selectedCandidate,  \* useState(null): id of the selected Candidate
    transactionHash,    \* useState(null)
    inFlight,           \* bag of suspended handleCastVote invocations
    transactions,       \* the ledger's append-only VoteTransaction log
    voteCount           \* Candidate.voteCount, per candidate id

vars == <<user, step, isLoading, fetching, selectedElection,
          selectedCandidate, transactionHash, inFlight, transactions,
          voteCount>>

VARIABLES
    otpMounted,         \* OTPVerification: "no", "yes" (mounted) or "gone"
    otp,                \* useState(''): the input
    otpIsVerifying,     \* useState(false): the component's isVerifying
    generatedOtp,       \* useState('')
    resendDisabled,     \* useState(false)
    countdown,          \* useState(30)
    autoFill,           \* useState(false)
    timerRef,           \* the interval timerRef.current names is live
    intervals,          \* number of live countdown intervals
    otpTimers           \* bag of the component's pending setTimeout callbacks

otpVars == <<otpMounted, otp, otpIsVerifying, generatedOtp, resendDisabled,
             countdown, autoFill, timerRef, intervals, otpTimers>>

VARIABLES
    referenceImage,     \* useFaceVerification: useState(null)
    isCaptured,         \* useState(false)
    isVerifying,        \* useState(false)
    verificationStatus, \* useState('idle'): idle, success or error
    faceTasks,          \* bag of the hook's pending promises and timeouts
    matched,            \* some comparison has resolved verified
    mismatched          \* some comparison has resolved not verified

faceVars == <<referenceImage, isCaptured, isVerifying, verificationStatus,
              faceTasks, matched, mismatched>>

VARIABLES
    invoked,            \* handleCastVote: invocations made so far
    surfaced            \* handleCastVote: toasts shown so far

castVars == <<invoked, surfaced>>

VARIABLES
    cameraMounted,      \* useCamera: "no", "yes" (mounted) or "gone"
    isCapturing,        \* useState(false)
    cameraError,        \* useState(false)
    cameraStream,       \* useState(null): a stream id or NoStream
    srcObject,          \* videoRef.current.srcObject: a stream id or NoStream
    live,               \* the acquired streams whose tracks are live
    acquired,           \* number of streams getUserMedia has handed out
    requests,           \* bag of suspended startWebcam invocations
    startTimer,         \* the auto-start effect's 1000 ms timeout is pending
    stopped             \* stopWebcam has returned, no startWebcam call since

cameraVars == <<cameraMounted, isCapturing, cameraError, cameraStream,
                srcObject, live, acquired, requests, startTimer, stopped>>

\* What the page's, the OTP component's and the face hook's steps leave alone.
hookVars == <<castVars, cameraVars>>

allVars == <<vars, otpVars, faceVars, castVars, cameraVars>>

\* Most handleCastVote invocations of the one hook suspended at the same time.
MaxInFlight == 2

\* null, for the user, the selected election and candidate, and the hash.
Null == "null"
NoElection == 0
NoCandidate == 0
NoHash == <<>>
NoStream == 0

Voters == {"v1", "v2"}

\* The catalog: election 42 is inside its voting window, election 43 is not.
ElectionIds == {42, 43}

CandidateIds == {101, 102, 201}

Steps == 1..6

\* The (election, candidate) arguments other clients call castVote with:
\* the valid ballots, one for the closed election, one foreign candidate.
ClientBallots == {<<42, 101>>, <<42, 102>>, <<43, 201>>, <<42, 201>>}

candidates(electionId) ==
    IF electionId = 42 THEN {101, 102}
    ELSE IF electionId = 43 THEN {201}
    ELSE {}

isActive(electionId) == electionId = 42

----------------------------------------------------------------------------
(* The vote ledger (design section 4.3).                                   *)

\* A ledger that looks only at the newest record of the log.
hasVoted_NewestOnly(txs, voterId, electionId) ==
    /\ Len(txs) > 0
    /\ txs[Len(txs)].voter = voterId
    /\ txs[Len(txs)].electionId = electionId

hasVoted(txs, voterId, electionId) ==
    \E i \in 1..Len(txs) :
        txs[i].voter = voterId /\ txs[i].electionId = electionId

\* The transaction hash: a token derived from the record's contents.
digest(voterId, electionId, candidateId, blockNumber) ==
    <<"0x", blockNumber, voterId, electionId, candidateId>>

\* A ledger whose uniqueness key is (voter, election, candidate): a vote for
\* another candidate of the same election is not seen as a duplicate.
recordErrors_KeyedByCandidate(txs, voterId, electionId, candidateId) ==
    (IF \E i \in 1..Len(txs) :
            /\ txs[i].voter = voterId
            /\ txs[i].electionId = electionId
            /\ txs[i].candidateId = candidateId
     THEN {"AlreadyVoted"} ELSE {})
    \cup (IF ~isActive(electionId) THEN {"ElectionNotActive"} ELSE {})
    \cup (IF candidateId \notin candidates(electionId)
          THEN {"InvalidCandidate"} ELSE {})

\* The error kinds a recordVote call with these arguments fails with
\* (the design fixes no precedence among them); none: the call succeeds.
recordErrors(txs, voterId, electionId, candidateId) ==
    (IF hasVoted(txs, voterId, electionId) THEN {"AlreadyVoted"} ELSE {})
    \cup (IF ~isActive(electionId) THEN {"ElectionNotActive"} ELSE {})
    \cup (IF candidateId \notin candidates(electionId)
          THEN {"InvalidCandidate"} ELSE {})

NewTransaction(txs, voterId, electionId, candidateId) ==
    [transactionHash |->
         digest(voterId, electionId, candidateId, Len(txs) + 1),
     blockNumber |-> Len(txs) + 1,
     voter |-> voterId,
     electionId |-> electionId,
     candidateId |-> candidateId]

\* A ledger that appends to the log and leaves the candidate's count to a
\* later step: the insert and the increment are not one unit.
recordVote_LogOnly(txs, counts, voterId, electionId, candidateId) ==
    LET errors == recordErrors(txs, voterId, electionId, candidateId)
        tx == NewTransaction(txs, voterId, electionId, candidateId)
    IN  IF errors # {}
        THEN [errors |-> errors, tx |-> Null,
              transactions |-> txs, voteCount |-> counts]
        ELSE [errors |-> {}, tx |-> tx,
              transactions |-> Append(txs, tx),
              voteCount |-> counts]

\* A ledger that increments the count before it checks for a duplicate.
recordVote_CountFirst(txs, counts, voterId, electionId, candidateId) ==
    LET errors == recordErrors(txs, voterId, electionId, candidateId)
        tx == NewTransaction(txs, voterId, electionId, candidateId)
        counted == IF candidateId \in candidates(electionId)
                   THEN [counts EXCEPT ![candidateId] = @ + 1]
                   ELSE counts
    IN  IF errors # {}
        THEN [errors |-> errors, tx |-> Null,
              transactions |-> txs, voteCount |-> counted]
        ELSE [errors |-> {}, tx |-> tx,
              transactions |-> Append(txs, tx),
              voteCount |-> counted]

\* recordVote: the indivisible check-and-insert; the count increment and
\* the log append are one unit.
recordVote(txs, counts, voterId, electionId, candidateId) ==
    LET errors == recordErrors(txs, voterId, electionId, candidateId)
        tx == NewTransaction(txs, voterId, electionId, candidateId)
    IN  IF errors # {}
        THEN [errors |-> errors, tx |-> Null,
              transactions |-> txs, voteCount |-> counts]
        ELSE [errors |-> {}, tx |-> tx,
              transactions |-> Append(txs, tx),
              voteCount |-> [counts EXCEPT ![candidateId] = @ + 1]]

----------------------------------------------------------------------------
(* VotingContract: the facade delegates to the two services.               *)

hasUserVoted(txs, userId, electionId) == hasVoted(txs, userId, electionId)

castVote(txs, counts, userId, electionId, candidateId) ==
    recordVote(txs, counts, userId, electionId, candidateId)

----------------------------------------------------------------------------
\* The page is mounted with voter v1 signed in, or with nobody signed in.
Init ==
    /\ user \in {"v1", Null}
    /\ step = 1
    /\ isLoading = TRUE
    /\ fetching = TRUE
    /\ selectedElection = NoElection
    /\ selectedCandidate = NoCandidate
    /\ transactionHash = NoHash
    /\ inFlight = EmptyBag
    /\ transactions = <<>>
    /\ voteCount = [c \in CandidateIds |-> 0]
    /\ otpMounted = "no"
    /\ otp = ""
    /\ otpIsVerifying = FALSE
    /\ generatedOtp = ""
    /\ resendDisabled = FALSE
    /\ countdown = 30
    /\ autoFill = FALSE
    /\ timerRef = FALSE
    /\ intervals = 0
    /\ otpTimers = EmptyBag
    /\ referenceImage = Null
    /\ isCaptured = FALSE
    /\ isVerifying = FALSE
    /\ verificationStatus = "idle"
    /\ faceTasks = IF user = Null THEN EmptyBag
                   ELSE SetToBag({[kind |-> "fetchUserFace",
                                   referenceImage |-> Null]})
    /\ matched = FALSE
    /\ mismatched = FALSE
    /\ invoked = 0
    /\ surfaced = 0
    /\ cameraMounted = "no"
    /\ isCapturing = FALSE
    /\ cameraError = FALSE
    /\ cameraStream = NoStream
    /\ srcObject = NoStream
    /\ live = {}
    /\ acquired = 0
    /\ requests = EmptyBag
    /\ startTimer = FALSE
    /\ stopped = FALSE

\* The mount effect: getElections() resolves or rejects, and finally clears
\* isLoading either way.  The fetched list is only rendered (the handlers
\* take Election objects as arguments), so it is not state of the model.
fetchElections ==
    /\ fetching
    /\ fetching' = FALSE
    /\ isLoading' = FALSE
    /\ UNCHANGED <<user, step, selectedElection, selectedCandidate,
                   transactionHash, inFlight, transactions, voteCount>>

\* The state setter the hook returns to its caller.
setStep(n) ==
    /\ step' = n
    /\ UNCHANGED <<user, isLoading, fetching, selectedElection,
                   selectedCandidate, transactionHash, inFlight,
                   transactions, voteCount>>

handleFaceVerificationSuccess ==
    /\ step' = 3
    /\ UNCHANGED <<user, isLoading, fetching, selectedElection,
                   selectedCandidate, transactionHash, inFlight,
                   transactions, voteCount>>

handleFaceVerificationError ==
    /\ step' = 1
    /\ UNCHANGED <<user, isLoading, fetching, selectedElection,
                   selectedCandidate, transactionHash, inFlight,
                   transactions, voteCount>>

handleOTPVerificationSuccess ==
    /\ step' = 4
    /\ UNCHANGED <<user, isLoading, fetching, selectedElection,
                   selectedCandidate, transactionHash, inFlight,
                   transactions, voteCount>>

\* An OTP failure that aborts the session: back to step 1.
handleOTPVerificationError_Restart ==
    /\ step' = 1
    /\ UNCHANGED <<user, isLoading, fetching, selectedElection,
                   selectedCandidate, transactionHash, inFlight,
                   transactions, voteCount>>

\* Toasts only: no state of the hook changes.
handleOTPVerificationError == UNCHANGED vars

handleSelectElection(election) ==
    /\ selectedElection' = election
    /\ step' = 5
    /\ UNCHANGED <<user, isLoading, fetching, selectedCandidate,
                   transactionHash, inFlight, transactions, voteCount>>

handleSelectCandidate(candidate) ==
    /\ selectedCandidate' = candidate
    /\ UNCHANGED <<user, step, isLoading, fetching,
                   selectedElection, transactionHash, inFlight,
                   transactions, voteCount>>

----------------------------------------------------------------------------
(* handleCastVote.  An invocation in flight is a record of the values its  *)
(* closure captured and of the await it is suspended at.                   *)

Invocation(at, election, candidate) ==
    [pc |-> at, electionId |-> election, candidateId |-> candidate]

suspended(at) == {k \in BagToSet(inFlight) : k.pc = at}

\* `if (!selectedElection || !selectedCandidate || !user) return;`
canCast ==
    /\ selectedElection # NoElection
    /\ selectedCandidate # NoCandidate
    /\ user # Null

\* The test negated: `if (!hasVoted)`.
shortCircuit_Negated(voted) == ~voted

\* The test dropped: the record call is made whatever the lookup said.
shortCircuit_Never(voted) == FALSE

\* `if (hasVoted)`: the short circuit before the record call.
shortCircuit(voted) == voted

\* The call: the guard, setIsLoading(true), up to `await hasUserVoted`.
handleCastVote ==
    IF canCast
    THEN /\ BagCardinality(inFlight) < MaxInFlight
         /\ isLoading' = TRUE
         /\ inFlight' = inFlight (+) SetToBag({Invocation("hasUserVoted",
                                     selectedElection, selectedCandidate)})
         /\ UNCHANGED <<user, step, fetching, selectedElection,
                        selectedCandidate, transactionHash, transactions,
                        voteCount>>
    ELSE UNCHANGED vars

\* `await hasUserVoted` resolves: the Already Voted return (finally clears
\* isLoading), or on to `await castVote`.
hasUserVotedResolves(k) ==
    /\ k \in suspended("hasUserVoted")
    /\ IF shortCircuit(hasUserVoted(transactions, user, k.electionId))
       THEN /\ isLoading' = FALSE
            /\ inFlight' = inFlight (-) SetToBag({k})
       ELSE /\ inFlight' = (inFlight (-) SetToBag({k}))
                           (+) SetToBag({[k EXCEPT !.pc = "castVote"]})
            /\ UNCHANGED isLoading
    /\ UNCHANGED <<user, step, fetching, selectedElection,
                   selectedCandidate, transactionHash, transactions,
                   voteCount>>

\* `await castVote` settles: the ledger decides; on success the hash is kept
\* and the step moves to 6, on a thrown error the catch block only toasts;
\* finally clears isLoading.
castVoteSettles(k) ==
    /\ k \in suspended("castVote")
    /\ LET r == castVote(transactions, voteCount, user,
                         k.electionId, k.candidateId)
       IN  /\ transactions' = r.transactions
           /\ voteCount' = r.voteCount
           /\ IF r.errors = {}
              THEN /\ transactionHash' = r.tx.transactionHash
                   /\ step' = 6
              ELSE UNCHANGED <<transactionHash, step>>
    /\ isLoading' = FALSE
    /\ inFlight' = inFlight (-) SetToBag({k})
    /\ UNCHANGED <<user, fetching, selectedElection,
                   selectedCandidate>>

\* Either await rejects before the ledger acted (the service is
\* unavailable): catch toasts, finally clears isLoading.
awaitRejects(k) ==
    /\ k \in BagToSet(inFlight)
    /\ isLoading' = FALSE
    /\ inFlight' = inFlight (-) SetToBag({k})
    /\ UNCHANGED <<user, step, fetching, selectedElection,
                   selectedCandidate, transactionHash, transactions,
                   voteCount>>

\* `await castVote` rejects after the ledger committed the record (the
\* reply is lost: the service became unavailable after the commit): the
\* page sees only the error, so catch toasts and finally clears isLoading.
castVoteReplyLost(k) ==
    /\ k \in suspended("castVote")
    /\ LET r == castVote(transactions, voteCount, user,
                         k.electionId, k.candidateId)
       IN  /\ r.errors = {}
           /\ transactions' = r.transactions
           /\ voteCount' = r.voteCount
    /\ isLoading' = FALSE
    /\ inFlight' = inFlight (-) SetToBag({k})
    /\ UNCHANGED <<user, step, fetching, selectedElection,
                   selectedCandidate, transactionHash>>

\* Another client of the facade (another page, another voter) records a
\* vote: VotingContract.castVote called with any arguments.
clientCastVote(userId, electionId, candidateId) ==
    /\ LET r == castVote(transactions, voteCount, userId,
                         electionId, candidateId)
       IN  /\ transactions' = r.transactions
           /\ voteCount' = r.voteCount
    /\ UNCHANGED <<user, step, isLoading, fetching,
                   selectedElection, selectedCandidate, transactionHash,
                   inFlight>>

----------------------------------------------------------------------------
(* The OTPVerification component.  Its props are the page's handlers:      *)
(* onVerified is handleOTPVerificationSuccess and onError is               *)
(* handleOTPVerificationError.  A pending setTimeout callback is a record  *)
(* of its kind and of the otp and generatedOtp its closure captured; the   *)
(* delays themselves are not modelled, so pending callbacks run in any     *)
(* order.                                                                  *)

\* The codes generateOTP can draw (two of the 9000).
Codes == {"1111", "2222"}

\* What the voter types into the input: a code, or two digits only.
Typed == Codes \cup {"11"}

\* setCountdown(30).
CooldownSeconds == 30

\* Most Verify / manual-entry timeouts pending at the same time.
MaxOtpTimers == 2

Timer(kind, o, g) == [kind |-> kind, otp |-> o, generatedOtp |-> g]

pendingOtp(kind) == {t \in BagToSet(otpTimers) : t.kind = kind}

\* clearTimeout on every pending callback of the kind.
cleared(timers, kind) ==
    [t \in {x \in BagToSet(timers) : x.kind # kind} |-> timers[t]]

\* The Verify and manual-entry timeouts: nothing ever clears them.
untracked(timers) ==
    BagCardinality(cleared(cleared(timers, "autoFill"), "autoVerify"))

\* The two effects React runs after a render whose dependencies changed,
\* from state (o, g, a) = (otp, generatedOtp, autoFill) to (o2, g2, a2):
\* [generatedOtp] clears the auto-fill timeout and, if there is a code and
\* autoFill is off, sets a new one; [otp, autoFill] clears the auto-verify
\* timeout and, if autoFill is on and the input is the code, sets a new one
\* around this render's handleVerify.
effects(timers, o, g, a, o2, g2, a2) ==
    LET e1 == IF g2 = g THEN timers
              ELSE cleared(timers, "autoFill")
                   (+) (IF g2 # "" /\ ~a2
                        THEN SetToBag({Timer("autoFill", "", g2)})
                        ELSE EmptyBag)
    IN  IF o2 = o /\ a2 = a THEN e1
        ELSE cleared(e1, "autoVerify")
             (+) (IF a2 /\ o2 = g2
                  THEN SetToBag({Timer("autoVerify", o2, g2)})
                  ELSE EmptyBag)

\* generateOTP drawing newOtp; nextOtp is the input after the caller's own
\* setOtp, if any (the state updates of one handler are one render).
generateOTP(newOtp, nextOtp) ==
    /\ generatedOtp' = newOtp
    /\ autoFill' = FALSE
    /\ resendDisabled' = TRUE
    /\ countdown' = CooldownSeconds
    /\ intervals' = intervals - (IF timerRef THEN 1 ELSE 0) + 1
    /\ timerRef' = TRUE
    /\ otp' = nextOtp
    /\ otpTimers' = effects(otpTimers, otp, generatedOtp, autoFill,
                            nextOtp, newOtp, FALSE)

\* The component mounts: the mount effect calls generateOTP.
OTPMount(newOtp) ==
    /\ otpMounted = "no"
    /\ otpMounted' = "yes"
    /\ generateOTP(newOtp, otp)
    /\ UNCHANGED otpIsVerifying
    /\ UNCHANGED vars
    /\ UNCHANGED <<faceVars, hookVars>>

\* The Resend button (disabled={resendDisabled}).
handleResend(newOtp) ==
    /\ otpMounted = "yes"
    /\ ~resendDisabled
    /\ generateOTP(newOtp, "")
    /\ UNCHANGED <<otpMounted, otpIsVerifying>>
    /\ UNCHANGED vars
    /\ UNCHANGED <<faceVars, hookVars>>

\* The interval's test off by one: `prev <= 0`.
tick_OffByOne ==
    /\ intervals > 0
    /\ IF countdown <= 0
       THEN /\ countdown' = 0
            /\ resendDisabled' = FALSE
            /\ intervals' = intervals - (IF timerRef THEN 1 ELSE 0)
            /\ timerRef' = FALSE
       ELSE /\ countdown' = countdown - 1
            /\ UNCHANGED <<resendDisabled, timerRef, intervals>>
    /\ UNCHANGED <<otpMounted, otp, otpIsVerifying, generatedOtp, autoFill,
                   otpTimers>>
    /\ UNCHANGED vars
    /\ UNCHANGED <<faceVars, hookVars>>

\* One tick of the countdown interval.
tick ==
    /\ intervals > 0
    /\ IF countdown <= 1
       THEN /\ countdown' = 0
            /\ resendDisabled' = FALSE
            /\ intervals' = intervals - (IF timerRef THEN 1 ELSE 0)
            /\ timerRef' = FALSE
       ELSE /\ countdown' = countdown - 1
            /\ UNCHANGED <<resendDisabled, timerRef, intervals>>
    /\ UNCHANGED <<otpMounted, otp, otpIsVerifying, generatedOtp, autoFill,
                   otpTimers>>
    /\ UNCHANGED vars
    /\ UNCHANGED <<faceVars, hookVars>>

\* The auto-fill timeout: setOtp(generatedOtp), setAutoFill(true).
autoFillFires(t) ==
    /\ t \in pendingOtp("autoFill")
    /\ otp' = t.generatedOtp
    /\ autoFill' = TRUE
    /\ otpTimers' = effects(otpTimers (-) SetToBag({t}), otp, generatedOtp,
                            autoFill, t.generatedOtp, generatedOtp, TRUE)
    /\ UNCHANGED <<otpMounted, otpIsVerifying, generatedOtp, resendDisabled,
                   countdown, timerRef, intervals>>
    /\ UNCHANGED vars
    /\ UNCHANGED <<faceVars, hookVars>>

\* The body of handleVerify as closed over input o and code g: too short an
\* input only toasts; otherwise setIsVerifying(true) and the 1500 ms timeout.
verify(timers, o, g) ==
    IF Len(o) < 4
    THEN /\ otpTimers' = timers
         /\ UNCHANGED otpIsVerifying
    ELSE /\ otpTimers' = timers (+) SetToBag({Timer("verify", o, g)})
         /\ otpIsVerifying' = TRUE

\* The auto-verify timeout calls the handleVerify of the render that set it.
autoVerifyFires(t) ==
    /\ t \in pendingOtp("autoVerify")
    /\ untracked(otpTimers) < MaxOtpTimers
    /\ verify(otpTimers (-) SetToBag({t}), t.otp, t.generatedOtp)
    /\ UNCHANGED <<otpMounted, otp, generatedOtp, resendDisabled, countdown,
                   autoFill, timerRef,
                   intervals>>
    /\ UNCHANGED vars
    /\ UNCHANGED <<faceVars, hookVars>>

\* The Verify button (disabled={otp.length < 4 || isVerifying}).
handleVerify ==
    /\ otpMounted = "yes"
    /\ Len(otp) = 4
    /\ ~otpIsVerifying
    /\ untracked(otpTimers) < MaxOtpTimers
    /\ verify(otpTimers, otp, generatedOtp)
    /\ UNCHANGED <<otpMounted, otp, generatedOtp, resendDisabled, countdown,
                   autoFill, timerRef,
                   intervals>>
    /\ UNCHANGED vars
    /\ UNCHANGED <<faceVars, hookVars>>

\* The comparison a pending callback makes: on the values it closed over.
matches(t) == t.otp = t.generatedOtp

\* What a Verify or manual-entry timeout does when it runs: onVerified, or
\* setOtp('') and onError.  State setters of an unmounted component do
\* nothing; the callbacks are called all the same.
report(t, verifying) ==
    LET o2 == IF matches(t) \/ otpMounted # "yes" THEN otp ELSE ""
    IN  /\ IF matches(t)
           THEN handleOTPVerificationSuccess
           ELSE handleOTPVerificationError
        /\ otp' = o2
        /\ otpIsVerifying' = IF otpMounted = "yes" THEN verifying
                             ELSE otpIsVerifying
        /\ otpTimers' = effects(otpTimers (-) SetToBag({t}), otp,
                                generatedOtp, autoFill, o2, generatedOtp,
                                autoFill)
            /\ UNCHANGED <<otpMounted, generatedOtp, resendDisabled, countdown,
                       autoFill, timerRef, intervals>>
        /\ UNCHANGED <<faceVars, hookVars>>

\* The 1500 ms timeout of handleVerify; it ends with setIsVerifying(false).
verifyFires(t) ==
    /\ t \in pendingOtp("verify")
    /\ report(t, FALSE)

\* The input changes to value; four digits typed with autoFill off start
\* the 500 ms timeout.
handleOTPChange(value) ==
    /\ otpMounted = "yes"
    /\ value # otp
    /\ otp' = value
    /\ IF Len(value) = 4 /\ ~autoFill
       THEN /\ untracked(otpTimers) < MaxOtpTimers
            /\ otpTimers' = effects(otpTimers
                                (+) SetToBag({Timer("change", value,
                                                    generatedOtp)}),
                                otp, generatedOtp, autoFill, value,
                                generatedOtp, autoFill)
       ELSE otpTimers' = effects(otpTimers, otp, generatedOtp, autoFill,
                                 value, generatedOtp, autoFill)
    /\ UNCHANGED <<otpMounted, otpIsVerifying, generatedOtp, resendDisabled,
                   countdown, autoFill, timerRef,
                   intervals>>
    /\ UNCHANGED vars
    /\ UNCHANGED <<faceVars, hookVars>>

\* The 500 ms timeout of handleOTPChange.
changeFires(t) ==
    /\ t \in pendingOtp("change")
    /\ report(t, otpIsVerifying)

\* The component unmounts: the effects' cleanups clear the interval, the
\* auto-fill timeout and the auto-verify timeout, and nothing else.
OTPUnmount ==
    /\ otpMounted = "yes"
    /\ otpMounted' = "gone"
    /\ intervals' = intervals - (IF timerRef THEN 1 ELSE 0)
    /\ timerRef' = FALSE
    /\ otpTimers' = cleared(cleared(otpTimers, "autoFill"), "autoVerify")
    /\ UNCHANGED <<otp, otpIsVerifying, generatedOtp, resendDisabled,
                   countdown, autoFill>>
    /\ UNCHANGED vars
    /\ UNCHANGED <<faceVars, hookVars>>

OtpNext ==
    \/ \E c \in Codes : OTPMount(c)
    \/ \E c \in Codes : handleResend(c)
    \/ tick
    \/ \E t \in BagToSet(otpTimers) : autoFillFires(t)
    \/ \E t \in BagToSet(otpTimers) : autoVerifyFires(t)
    \/ handleVerify
    \/ \E t \in BagToSet(otpTimers) : verifyFires(t)
    \/ \E v \in Typed : handleOTPChange(v)
    \/ \E t \in BagToSet(otpTimers) : changeFires(t)
    \/ OTPUnmount
    \/ handleFaceVerificationSuccess /\ UNCHANGED <<otpVars, faceVars, hookVars>>
    \/ handleFaceVerificationError /\ UNCHANGED <<otpVars, faceVars, hookVars>>

\* The page of a signed-in voter with its OTP component.
OtpInit == Init /\ user = "v1"

SpecOtp == OtpInit /\ [][OtpNext]_allVars

\* The mounted component left alone: no typing and no Verify click, only
\* its own timers and the Resend button.  Timers that are pending run
\* (the browser's event loop); a click on Resend is up to the voter, and
\* as it comes 30 ticks after a generation at the earliest it cannot keep
\* clearing the 1500 ms auto-fill and 1000 ms auto-verify timeouts before
\* they run: those two are strongly fair.
AutoNext ==
    \/ \E c \in Codes : OTPMount(c)
    \/ \E c \in Codes : handleResend(c)
    \/ tick
    \/ \E t \in BagToSet(otpTimers) : autoFillFires(t)
    \/ \E t \in BagToSet(otpTimers) : autoVerifyFires(t)
    \/ \E t \in BagToSet(otpTimers) : verifyFires(t)

SpecOtpAuto ==
    /\ OtpInit
    /\ [][AutoNext]_allVars
    /\ WF_allVars(\E c \in Codes : OTPMount(c))
    /\ WF_allVars(tick)
    /\ SF_allVars(\E t \in BagToSet(otpTimers) : autoFillFires(t))
    /\ SF_allVars(\E t \in BagToSet(otpTimers) : autoVerifyFires(t))
    /\ WF_allVars(\E t \in BagToSet(otpTimers) : verifyFires(t))

----------------------------------------------------------------------------
(* The useFaceVerification hook.  Its onVerified prop is the page's        *)
(* handleFaceVerificationSuccess.  A pending task is the promise of a      *)
(* fetch or of a comparison, or a setTimeout callback; a comparison keeps  *)
(* the referenceImage its caller closed over.  Nothing cancels a task, and *)
(* the delays are not modelled: pending tasks run in any order.            *)

\* Most fetches, comparisons and timeouts of the hook pending at once.
MaxFaceTasks == 2

\* The face_image_url of an enrolled voter.
Enrolled == "face_image_url"

FaceTask(kind, ref) == [kind |-> kind, referenceImage |-> ref]

pendingFace(kind) == {t \in BagToSet(faceTasks) : t.kind = kind}

\* The mount effect's query resolves: with the voter's enrolled image, or
\* with no row or an error (referenceImage stays null).
fetchUserFace(found) ==
    /\ FaceTask("fetchUserFace", Null) \in BagToSet(faceTasks)
    /\ faceTasks' = faceTasks (-) SetToBag({FaceTask("fetchUserFace", Null)})
    /\ referenceImage' = IF found THEN Enrolled ELSE referenceImage
    /\ UNCHANGED <<isCaptured, isVerifying, verificationStatus, matched,
                   mismatched>>
    /\ UNCHANGED vars
    /\ UNCHANGED <<otpVars, hookVars>>

\* `if (!referenceImage && user)`: the reference check of verifyFace.
missingReference(ref, u) == ref = Null /\ u # Null

\* The results simulateFaceComparison can resolve with: with or without a
\* reference image, Math.random() decides, and both results are possible.
simulateFaceComparison(ref) == BOOLEAN

\* captureImage on a live video element: setIsCaptured(true), then
\* verifyFace: setIsVerifying(true) and either the Reference Image Missing
\* branch (status error, the 2000 ms reset) or the comparison.
captureImage ==
    /\ BagCardinality(faceTasks) < MaxFaceTasks
    /\ isCaptured' = TRUE
    /\ isVerifying' = TRUE
    /\ IF missingReference(referenceImage, user)
       THEN /\ verificationStatus' = "error"
            /\ faceTasks' = faceTasks (+) SetToBag({FaceTask("reset", Null)})
       ELSE /\ faceTasks' = faceTasks
                     (+) SetToBag({FaceTask("compare", referenceImage)})
            /\ UNCHANGED verificationStatus
    /\ UNCHANGED <<referenceImage, matched, mismatched>>
    /\ UNCHANGED vars
    /\ UNCHANGED <<otpVars, hookVars>>

\* The comparison resolves: verified sets status success and the 1500 ms
\* timeout around onVerified; not verified sets status error and the
\* 2000 ms reset.  (simulateFaceComparison never rejects.)
comparisonResolves(t, verified) ==
    /\ t \in pendingFace("compare")
    /\ verified \in simulateFaceComparison(t.referenceImage)
    /\ IF verified
       THEN /\ verificationStatus' = "success"
            /\ faceTasks' = (faceTasks (-) SetToBag({t}))
                            (+) SetToBag({FaceTask("onVerified", Null)})
            /\ matched' = TRUE
            /\ UNCHANGED mismatched
       ELSE /\ verificationStatus' = "error"
            /\ faceTasks' = (faceTasks (-) SetToBag({t}))
                            (+) SetToBag({FaceTask("reset", Null)})
            /\ mismatched' = TRUE
            /\ UNCHANGED matched
    /\ UNCHANGED <<referenceImage, isCaptured, isVerifying>>
    /\ UNCHANGED vars
    /\ UNCHANGED <<otpVars, hookVars>>

\* The 1500 ms timeout: onVerified().
onVerifiedFires(t) ==
    /\ t \in pendingFace("onVerified")
    /\ handleFaceVerificationSuccess
    /\ faceTasks' = faceTasks (-) SetToBag({t})
    /\ UNCHANGED <<referenceImage, isCaptured, isVerifying,
                   verificationStatus, matched, mismatched>>
    /\ UNCHANGED <<otpVars, hookVars>>

\* The 2000 ms reset of a failed attempt.
resetFires(t) ==
    /\ t \in pendingFace("reset")
    /\ isCaptured' = FALSE
    /\ isVerifying' = FALSE
    /\ verificationStatus' = "idle"
    /\ faceTasks' = faceTasks (-) SetToBag({t})
    /\ UNCHANGED <<referenceImage, matched, mismatched>>
    /\ UNCHANGED vars
    /\ UNCHANGED <<otpVars, hookVars>>

retryCapture ==
    /\ isCaptured' = FALSE
    /\ verificationStatus' = "idle"
    /\ UNCHANGED <<referenceImage, isVerifying, faceTasks, matched,
                   mismatched>>
    /\ UNCHANGED vars
    /\ UNCHANGED <<otpVars, hookVars>>

\* The face step of the page with the rest of the workflow behind it: the
\* hook, the camera's onError (handleFaceVerificationError), the OTP
\* signals, and the selection and casting of one valid ballot.
FaceNext ==
    \/ \E found \in BOOLEAN : fetchUserFace(found)
    \/ captureImage
    \/ \E t \in BagToSet(faceTasks), verified \in BOOLEAN :
           comparisonResolves(t, verified)
    \/ \E t \in BagToSet(faceTasks) : onVerifiedFires(t)
    \/ \E t \in BagToSet(faceTasks) : resetFires(t)
    \/ retryCapture
    \/ handleFaceVerificationError /\ UNCHANGED <<otpVars, faceVars, hookVars>>
    \/ handleOTPVerificationSuccess /\ UNCHANGED <<otpVars, faceVars, hookVars>>
    \/ handleOTPVerificationError /\ UNCHANGED <<otpVars, faceVars, hookVars>>
    \/ handleSelectElection(42) /\ UNCHANGED <<otpVars, faceVars, hookVars>>
    \/ handleSelectCandidate(101) /\ UNCHANGED <<otpVars, faceVars, hookVars>>
    \/ handleCastVote /\ UNCHANGED <<otpVars, faceVars, hookVars>>
    \/ \E k \in BagToSet(inFlight) :
           hasUserVotedResolves(k) /\ UNCHANGED <<otpVars, faceVars, hookVars>>
    \/ \E k \in BagToSet(inFlight) :
           castVoteSettles(k) /\ UNCHANGED <<otpVars, faceVars, hookVars>>

SpecFace == Init /\ [][FaceNext]_allVars

\* The page alone: the OTP component and the face hook do not move.
Next ==
    \/ fetchElections /\ UNCHANGED <<otpVars, faceVars, hookVars>>
    \/ \E n \in Steps : setStep(n) /\ UNCHANGED <<otpVars, faceVars, hookVars>>
    \/ handleFaceVerificationSuccess /\ UNCHANGED <<otpVars, faceVars, hookVars>>
    \/ handleFaceVerificationError /\ UNCHANGED <<otpVars, faceVars, hookVars>>
    \/ handleOTPVerificationSuccess /\ UNCHANGED <<otpVars, faceVars, hookVars>>
    \/ handleOTPVerificationError /\ UNCHANGED <<otpVars, faceVars, hookVars>>
    \/ \E e \in ElectionIds :
           handleSelectElection(e) /\ UNCHANGED <<otpVars, faceVars, hookVars>>
    \/ \E c \in CandidateIds :
           handleSelectCandidate(c) /\ UNCHANGED <<otpVars, faceVars, hookVars>>
    \/ handleCastVote /\ UNCHANGED <<otpVars, faceVars, hookVars>>
    \/ \E k \in BagToSet(inFlight) :
           hasUserVotedResolves(k) /\ UNCHANGED <<otpVars, faceVars, hookVars>>
    \/ \E k \in BagToSet(inFlight) :
           castVoteSettles(k) /\ UNCHANGED <<otpVars, faceVars, hookVars>>
    \/ \E k \in BagToSet(inFlight) :
           awaitRejects(k) /\ UNCHANGED <<otpVars, faceVars, hookVars>>
    \/ \E k \in BagToSet(inFlight) :
           castVoteReplyLost(k) /\ UNCHANGED <<otpVars, faceVars, hookVars>>
    \/ \E v \in Voters, b \in ClientBallots :
           clientCastVote(v, b[1], b[2]) /\ UNCHANGED <<otpVars, faceVars, hookVars>>

Spec == Init /\ [][Next]_allVars

----------------------------------------------------------------------------
(* handleCastVote and what it shows.  Each of its toasts is counted when   *)
(* the step that shows it runs: Already Voted at the short circuit, Vote   *)
(* Cast Successfully after the record call, Error in the catch block.      *)

\* Most handleCastVote invocations counted.
MaxInvoked == 3

\* A step of an invocation that shows no toast.
quiet == UNCHANGED surfaced

\* toast({...}): a step of an invocation that shows one.
toast == surfaced' = surfaced + 1

\* The page's cast-vote surface: the selections, the call and its
\* resumptions, each with the toasts it shows.
CastNext ==
    \/ /\ fetchElections
       /\ UNCHANGED <<otpVars, faceVars, hookVars>>
    \/ \E e \in ElectionIds :
           /\ handleSelectElection(e)
           /\ UNCHANGED <<otpVars, faceVars, hookVars>>
    \/ \E c \in CandidateIds :
           /\ handleSelectCandidate(c)
           /\ UNCHANGED <<otpVars, faceVars, hookVars>>
    \/ /\ invoked < MaxInvoked
       /\ handleCastVote
       /\ invoked' = invoked + 1
       /\ quiet
       /\ UNCHANGED <<otpVars, faceVars, cameraVars>>
    \/ \E k \in BagToSet(inFlight) :
           /\ hasUserVotedResolves(k)
           /\ IF shortCircuit(hasUserVoted(transactions, user, k.electionId))
              THEN toast
              ELSE quiet
           /\ UNCHANGED <<otpVars, faceVars, invoked, cameraVars>>
    \/ \E k \in BagToSet(inFlight) :
           /\ castVoteSettles(k)
           /\ toast
           /\ UNCHANGED <<otpVars, faceVars, invoked, cameraVars>>
    \/ \E k \in BagToSet(inFlight) :
           /\ awaitRejects(k)
           /\ toast
           /\ UNCHANGED <<otpVars, faceVars, invoked, cameraVars>>

SpecCast == Init /\ [][CastNext]_allVars

----------------------------------------------------------------------------
(* The useCamera hook.  startWebcam is async: it suspends at `await        *)
(* getUserMedia` and at `await play()`.  The browser hands out a stream    *)
(* (its tracks are live from then on) before the continuation of the       *)
(* invocation runs, so a suspended invocation is a record of where it      *)
(* waits and of the stream it was given.  A state update of a continuation *)
(* is committed, with the effect cleanups it triggers, in the same step.   *)
(* onError is the face-error handler the page passes.                      *)

\* Most streams getUserMedia hands out.
MaxStreams == 3

Request(pc, stream) == [pc |-> pc, stream |-> stream]

waiting(pc) == {k \in BagToSet(requests) : k.pc = pc}

\* stream.getTracks().forEach(track => track.stop()), guarded by `if (stream)`.
stopTracks(streams, stream) == streams \ {stream}

\* The component mounts: the auto-start effect sets its 1000 ms timeout.
CameraMount ==
    /\ cameraMounted = "no"
    /\ cameraMounted' = "yes"
    /\ startTimer' = TRUE
    /\ UNCHANGED <<isCapturing, cameraError, cameraStream, srcObject, live,
                   acquired, requests, stopped>>
    /\ UNCHANGED <<vars, otpVars, faceVars, castVars>>

\* startWebcam up to `await getUserMedia`, called from a closure whose
\* cameraStream is `closure`; `timer` is what becomes of the auto-start
\* timeout.
startWebcam(closure, timer) ==
    /\ cameraMounted = "yes"
    /\ acquired + BagCardinality(requests) < MaxStreams
    /\ cameraError' = FALSE
    /\ live' = stopTracks(live, closure)
    /\ requests' = requests (+) SetToBag({Request("getUserMedia", NoStream)})
    /\ startTimer' = timer
    /\ stopped' = FALSE
    /\ UNCHANGED <<cameraMounted, isCapturing, cameraStream, srcObject,
                   acquired>>
    /\ UNCHANGED <<vars, otpVars, faceVars, castVars>>

\* The auto-start timeout fires: the video element is mounted, and the
\* startWebcam it calls is the one of the mount render (the effect has no
\* dependencies), whose cameraStream is null.
startTimerFires ==
    /\ startTimer
    /\ startWebcam(NoStream, FALSE)

\* getUserMedia resolves: the browser hands out a new live stream.
getUserMediaResolves(k) ==
    /\ k \in waiting("getUserMedia")
    /\ acquired' = acquired + 1
    /\ live' = live \cup {acquired + 1}
    /\ requests' = (requests (-) SetToBag({k}))
                   (+) SetToBag({Request("acquired", acquired + 1)})
    /\ UNCHANGED <<cameraMounted, isCapturing, cameraError, cameraStream,
                   srcObject, startTimer, stopped>>
    /\ UNCHANGED <<vars, otpVars, faceVars, castVars>>

\* getUserMedia rejects (access denied, no camera): the catch block.
getUserMediaRejects(k) ==
    /\ k \in waiting("getUserMedia")
    /\ cameraError' = IF cameraMounted = "yes" THEN TRUE ELSE cameraError
    /\ requests' = requests (-) SetToBag({k})
    /\ handleFaceVerificationError
    /\ UNCHANGED <<cameraMounted, isCapturing, cameraStream, srcObject, live,
                   acquired, startTimer, stopped>>
    /\ UNCHANGED <<otpVars, faceVars, castVars>>

\* The continuation after `await getUserMedia`: setCameraStream(stream)
\* (the cleanup of the [cameraStream] effect stops the stream it replaces),
\* the stream is attached and play() is called; with the component gone
\* the state update is lost and videoRef.current is null.
startWebcamResumes(k) ==
    /\ k \in waiting("acquired")
    /\ IF cameraMounted = "yes"
       THEN /\ cameraStream' = k.stream
            /\ live' = IF cameraStream = k.stream THEN live
                       ELSE stopTracks(live, cameraStream)
            /\ srcObject' = k.stream
            /\ requests' = (requests (-) SetToBag({k}))
                           (+) SetToBag({Request("play", k.stream)})
       ELSE /\ requests' = requests (-) SetToBag({k})
            /\ UNCHANGED <<cameraStream, live, srcObject>>
    /\ UNCHANGED <<cameraMounted, isCapturing, cameraError, acquired,
                   startTimer, stopped>>
    /\ UNCHANGED <<vars, otpVars, faceVars, castVars>>

\* `await play()` resolves: setIsCapturing(true).
playResolves(k) ==
    /\ k \in waiting("play")
    /\ isCapturing' = IF cameraMounted = "yes" THEN TRUE ELSE isCapturing
    /\ requests' = requests (-) SetToBag({k})
    /\ UNCHANGED <<cameraMounted, cameraError, cameraStream, srcObject, live,
                   acquired, startTimer, stopped>>
    /\ UNCHANGED <<vars, otpVars, faceVars, castVars>>

\* `await play()` rejects: setCameraError(true), and the rethrown error
\* reaches the catch block.
playRejects(k) ==
    /\ k \in waiting("play")
    /\ cameraError' = IF cameraMounted = "yes" THEN TRUE ELSE cameraError
    /\ requests' = requests (-) SetToBag({k})
    /\ handleFaceVerificationError
    /\ UNCHANGED <<cameraMounted, isCapturing, cameraStream, srcObject, live,
                   acquired, startTimer, stopped>>
    /\ UNCHANGED <<otpVars, faceVars, castVars>>

stopWebcam ==
    /\ cameraMounted = "yes"
    /\ live' = stopTracks(live, cameraStream)
    /\ cameraStream' = NoStream
    /\ srcObject' = NoStream
    /\ isCapturing' = FALSE
    /\ stopped' = TRUE
    /\ UNCHANGED <<cameraMounted, cameraError, acquired, requests,
                   startTimer>>
    /\ UNCHANGED <<vars, otpVars, faceVars, castVars>>

\* The component unmounts: the cleanup of the [cameraStream] effect stops
\* the current stream, the auto-start timeout is cleared, and the video
\* element goes with the component.
CameraUnmount ==
    /\ cameraMounted = "yes"
    /\ cameraMounted' = "gone"
    /\ live' = stopTracks(live, cameraStream)
    /\ srcObject' = NoStream
    /\ startTimer' = FALSE
    /\ UNCHANGED <<isCapturing, cameraError, cameraStream, acquired,
                   requests, stopped>>
    /\ UNCHANGED <<vars, otpVars, faceVars, castVars>>

CameraNext ==
    \/ CameraMount
    \/ startWebcam(cameraStream, startTimer)
    \/ startTimerFires
    \/ \E k \in BagToSet(requests) : getUserMediaResolves(k)
    \/ \E k \in BagToSet(requests) : getUserMediaRejects(k)
    \/ \E k \in BagToSet(requests) : startWebcamResumes(k)
    \/ \E k \in BagToSet(requests) : playResolves(k)
    \/ \E k \in BagToSet(requests) : playRejects(k)
    \/ stopWebcam
    \/ CameraUnmount

SpecCamera == Init /\ [][CameraNext]_allVars

----------------------------------------------------------------------------
(* Properties.                                                             *)

\* The transactions of the log recorded for (voterId, electionId).
votesOf(voterId, electionId) ==
    {i \in 1..Len(transactions) :
        /\ transactions[i].voter = voterId
        /\ transactions[i].electionId = electionId}

\* The transactions of the log referencing the candidate.
votesFor(candidateId) ==
    {i \in 1..Len(transactions) : transactions[i].candidateId = candidateId}

RECURSIVE sumOver(_, _)
sumOver(counts, ids) ==
    IF ids = {} THEN 0
    ELSE LET c == CHOOSE x \in ids : TRUE
         IN  counts[c] + sumOver(counts, ids \ {c})

totalVotes(counts) == sumOver(counts, CandidateIds)

\* C1: in every reachable state the log holds at most one VoteTransaction
\* for each (voterId, electionId) pair.
C1_AtMostOneVotePerPair ==
    \A v \in Voters, e \in ElectionIds : Cardinality(votesOf(v, e)) <= 1

\* C1 witness: both voters have voted in election 42 and the page's voter,
\* already in the log, has a further record call pending.
C1_Witness ==
    /\ Len(transactions) = 2
    /\ \E k \in suspended("castVote") : votesOf(user, k.electionId) # {}

\* C2: of the racing handleCastVote invocations of one voter for one
\* election, whichever record call settles first on valid arguments creates
\* exactly one transaction and raises the total vote count by exactly 1;
\* every call that settles once the voter is in the log is answered
\* AlreadyVoted and changes neither the log, any count, the step nor the
\* hash; and the lookup short-circuits only when the voter is in the log.
C2_RaceOneWinner ==
    [][\A k \in BagToSet(inFlight) :
         /\ (inFlight' # inFlight /\ castVoteSettles(k)) =>
              IF votesOf(user, k.electionId) # {}
              THEN /\ "AlreadyVoted" \in castVote(transactions, voteCount,
                          user, k.electionId, k.candidateId).errors
                   /\ UNCHANGED <<transactions, voteCount, step,
                                  transactionHash>>
              ELSE (isActive(k.electionId)
                    /\ k.candidateId \in candidates(k.electionId)) =>
                       /\ Len(transactions') = Len(transactions) + 1
                       /\ Cardinality(votesOf(user, k.electionId)') = 1
                       /\ totalVotes(voteCount') = totalVotes(voteCount) + 1
         /\ (inFlight' # inFlight /\ hasUserVotedResolves(k)) =>
              (votesOf(user, k.electionId) # {}
                 <=> BagCardinality(inFlight') < BagCardinality(inFlight))
      ]_vars

\* C2 witness: two invocations raced for election 42 with different
\* candidates; the page's own invocation won (its hash is kept, the step is
\* 6) and the other, past its lookup, is about to be answered AlreadyVoted.
C2_Witness ==
    /\ transactionHash # NoHash
    /\ step = 6
    /\ \E k \in suspended("castVote"), i \in votesOf(user, 42) :
          /\ k.electionId = 42
          /\ k.candidateId \in candidates(42)
          /\ transactions[i].candidateId # k.candidateId
          /\ transactions[i].transactionHash = transactionHash

\* C3: handleCastVote invoked while the step is below 4 (the session is not
\* Verified) fails: it starts no ledger call and creates no transaction.
C3_GateEnforcement ==
    [][(step < 4 /\ handleCastVote) =>
          UNCHANGED <<inFlight, isLoading, transactions, voteCount>>]_vars

\* C4: in every reachable state every candidate's voteCount equals the
\* number of transactions of the log that reference the candidate.
C4_VoteCountConsistency ==
    \A c \in CandidateIds : voteCount[c] = Cardinality(votesFor(c))

\* C4 witness: two successful record calls for the same candidate.
C4_Witness ==
    /\ Len(transactions) = 2
    /\ voteCount[101] = 2

\* C5: every transaction's candidate belongs to its election, and once an
\* election is selected handleSelectCandidate with a candidate that is not
\* one of that election's fails (InvalidCandidate): the selected candidate
\* is unchanged.
C5_CandidateOfSelectedElection ==
    /\ [](\A i \in 1..Len(transactions) :
             transactions[i].candidateId
                 \in candidates(transactions[i].electionId))
    /\ [][\A c \in CandidateIds :
             (/\ handleSelectCandidate(c)
              /\ selectedElection # NoElection
              /\ c \notin candidates(selectedElection))
                 => UNCHANGED selectedCandidate]_vars

\* C6: no transaction is ever created for an election outside its voting
\* window, and handleSelectElection on such an election fails
\* (ElectionNotActive) without advancing the workflow.
C6_InactiveElectionRejected ==
    /\ [](\A i \in 1..Len(transactions) :
             isActive(transactions[i].electionId))
    /\ [][\A e \in ElectionIds :
             (handleSelectElection(e) /\ ~isActive(e))
                 => UNCHANGED <<step, selectedElection>>]_vars

\* C7: once a record call has succeeded, a record call with the identical
\* arguments, by any caller, is answered AlreadyVoted and nothing else, and
\* its log and vote counts are the ones it found: no second transaction.
C7_IdempotentRejection ==
    \A i \in 1..Len(transactions) :
        LET t == transactions[i]
            again == castVote(transactions, voteCount,
                              t.voter, t.electionId, t.candidateId)
        IN  /\ again.errors = {"AlreadyVoted"}
            /\ again.transactions = transactions
            /\ again.voteCount = voteCount

\* C7 witness: the page's voter is in the log for (42, c) and a record call
\* of the page with the same arguments is about to settle.
C7_Witness ==
    \E k \in suspended("castVote"), i \in votesOf(user, 42) :
        /\ k.electionId = 42
        /\ k.candidateId = transactions[i].candidateId

\* C8: handleSelectCandidate called before any handleSelectElection fails
\* (InvalidWorkflowState): step, selectedElection and selectedCandidate are
\* unchanged.
C8_SelectCandidateBeforeElection ==
    [][\A c \in CandidateIds :
          (handleSelectCandidate(c) /\ selectedElection = NoElection)
              => UNCHANGED <<step, selectedElection, selectedCandidate>>]_vars

\* C9: handleSelectElection invoked before the session is Verified (step
\* below 4) fails (InvalidWorkflowState): step and selectedElection are
\* unchanged.
C9_SelectElectionBeforeVerified ==
    [][\A e \in ElectionIds :
          (handleSelectElection(e) /\ step < 4)
              => UNCHANGED <<step, selectedElection>>]_vars

\* The verification state a step stands for: 1 Start, 2 FaceVerifying,
\* 3 OtpVerifying, 4 and later Verified.
verificationState(s) == IF s >= 4 THEN 4 ELSE s

\* C10: the verification state changes only by a face signal taken at the
\* face-verifying step or an OTP success signal taken at the OTP-verifying
\* step; no other input (setStep included) moves it.
C10_OnlySignalsMoveVerification ==
    [][verificationState(step') # verificationState(step) =>
          \/ (step = 2 /\ handleFaceVerificationSuccess)
          \/ (step = 2 /\ handleFaceVerificationError)
          \/ (step = 3 /\ handleOTPVerificationSuccess)]_vars

\* C15: in every reachable state step = 6 (Confirmed) implies that
\* transactionHash is non-null and is the hash of a transaction of the log
\* for the page's voter and the selected election.
C15_ConfirmedCarriesTransaction ==
    step = 6 =>
        /\ transactionHash # NoHash
        /\ \E i \in votesOf(user, selectedElection) :
              transactions[i].transactionHash = transactionHash

\* C16: when a record call of the page is answered AlreadyVoted the workflow
\* is left in a terminal rejected state: handleCastVote is no longer
\* accepted, so no further call can start a lookup or a record call.
C16_AlreadyVotedIsTerminal ==
    [][\A k \in BagToSet(inFlight) :
          (/\ inFlight' # inFlight
           /\ castVoteSettles(k)
           /\ "AlreadyVoted" \in castVote(transactions, voteCount, user,
                                          k.electionId, k.candidateId).errors)
              => ~canCast']_vars

\* The number of transactions of a log recorded for (voterId, electionId).
recorded(txs, voterId, electionId) ==
    Cardinality({i \in 1..Len(txs) : /\ txs[i].voter = voterId
                                     /\ txs[i].electionId = electionId})

\* C17: a record call retried by the page after a failed attempt (rejected
\* before the commit, or the reply lost after it) finds either no
\* transaction of the voter and creates exactly one (one more vote in
\* total), or finds the voter's transaction, answers AlreadyVoted and leaves
\* log and counts as they are; never two transactions for the pair.
C17_RetryAfterFailureIsSafe ==
    \A k \in suspended("castVote") :
        LET retry == castVote(transactions, voteCount, user,
                              k.electionId, k.candidateId)
        IN  /\ recorded(transactions, user, k.electionId) <= 1
            /\ recorded(transactions, user, k.electionId) = 1 =>
                 /\ "AlreadyVoted" \in retry.errors
                 /\ retry.transactions = transactions
                 /\ retry.voteCount = voteCount
            /\ retry.errors = {} =>
                 /\ recorded(transactions, user, k.electionId) = 0
                 /\ Len(retry.transactions) = Len(transactions) + 1
                 /\ recorded(retry.transactions, user, k.electionId) = 1
                 /\ totalVotes(retry.voteCount) = totalVotes(voteCount) + 1
            /\ recorded(retry.transactions, user, k.electionId) <= 1

\* C17 witness: the voter's record for election 42 is committed, the page
\* holds no hash and is not at step 6 (it never saw a success), a record
\* call of another client came in between, and the page's retry for the
\* same election is past its lookup, about to reach the ledger.
C17_Witness ==
    /\ transactionHash = NoHash
    /\ step = 5
    /\ Len(transactions) = 2
    /\ transactions[1].voter = user
    /\ transactions[1].electionId = 42
    /\ \E k \in suspended("castVote") : k.electionId = 42

\* C18: a resolving lookup that finds the voter in the log ends the
\* invocation there, with log, counts, step and hash unchanged and no record
\* call; one that does not find the voter moves the invocation on to the
\* record call; and an invocation reaches the record call in no other way.
C18_LookupShortCircuits ==
    [][/\ \A k \in BagToSet(inFlight) :
            (inFlight' # inFlight /\ hasUserVotedResolves(k)) =>
               IF hasUserVoted(transactions, user, k.electionId)
               THEN /\ inFlight' = inFlight (-) SetToBag({k})
                    /\ UNCHANGED <<transactions, voteCount, step,
                                   transactionHash>>
               ELSE inFlight' = (inFlight (-) SetToBag({k}))
                           (+) SetToBag({[k EXCEPT !.pc = "castVote"]})
       /\ \A k \in BagToSet(inFlight') :
            (/\ k.pc = "castVote"
             /\ CopiesIn(k, inFlight') > CopiesIn(k, inFlight)) =>
               /\ [k EXCEPT !.pc = "hasUserVoted"] \in BagToSet(inFlight)
               /\ ~hasUserVoted(transactions, user, k.electionId)
               /\ UNCHANGED <<transactions, voteCount>>
      ]_vars

\* C18 witness: one invocation's lookup is about to find the voter in the
\* log (its short circuit), while another, whose lookup did not, is past it
\* and suspended at the record call.
C18_Witness ==
    /\ \E k \in suspended("hasUserVoted") :
          hasUserVoted(transactions, user, k.electionId)
    /\ suspended("castVote") # {}

\* C11: once the step is 4 or later, no late or duplicate face-success
\* callback, face or camera error callback or OTP error callback moves it
\* back below 4.
C11_VerifiedIsTerminal ==
    [][(/\ step >= 4
        /\ \/ \E t \in BagToSet(faceTasks) : onVerifiedFires(t)
           \/ handleFaceVerificationError
           \/ handleOTPVerificationError) => step' >= 4]_allVars

\* The Verify and manual-entry timeouts still pending.
checks == pendingOtp("verify") \cup pendingOtp("change")

\* The timeout t runs and reports.
reports(t) == otpTimers' # otpTimers /\ (verifyFires(t) \/ changeFires(t))

\* C12: a face failure sets the step to 1 and changes nothing else of the
\* page; an OTP failure changes nothing of the page (at step 3 the step
\* stays 3) and clears the input of the mounted component; and a later
\* success signal of the factor still advances: face success at step 1
\* gives step 3, a matching OTP check at step 3 gives step 4.
C12_FailureReturnsToEntry ==
    [][/\ handleFaceVerificationError =>
            /\ step' = 1
            /\ UNCHANGED <<user, selectedElection, selectedCandidate,
                           transactionHash, inFlight, transactions,
                           voteCount>>
       /\ \A t \in checks :
            (reports(t) /\ ~matches(t)) =>
                /\ UNCHANGED vars
                /\ otpMounted = "yes" => otp' = ""
       /\ (step = 1 /\ handleFaceVerificationSuccess) => step' = 3
       /\ \A t \in checks :
            (step = 3 /\ reports(t) /\ matches(t)) => step' = 4
      ]_allVars

\* C12 witness: at step 3 the mounted component holds a submitted code that
\* is not the generated one, and the check that will fail is pending.
C12_Witness ==
    /\ step = 3
    /\ otpMounted = "yes"
    /\ \E t \in checks : ~matches(t) /\ otp = t.otp

\* C13: while comparisons have resolved not verified and none has resolved
\* verified, the step is below 4, no handleCastVote invocation is in
\* flight and the log holds no transaction.
C13_MismatchesKeepVotingClosed ==
    (mismatched /\ ~matched) =>
        /\ step < 4
        /\ inFlight = EmptyBag
        /\ transactions = <<>>

\* C14: no comparison ever runs without a reference image: every pending
\* comparison closed over an enrolled image.
C14_NoComparisonWithoutReference ==
    \A t \in pendingFace("compare") : t.referenceImage # Null

\* C19: a check that reports, reports correct exactly when the code it was
\* submitted with is the code current at that moment.
C19_ReportAgainstCurrentCode ==
    [][\A t \in checks :
          reports(t) => (matches(t) <=> t.otp = generatedOtp)]_allVars

\* C20: every generation disables resend and sets the countdown to 30; a
\* tick takes one off a positive countdown; while the component is mounted
\* the countdown is within 0..30, resend is disabled exactly while it is
\* positive, at most one interval is live, and none once it is 0.
C20_ResendCooldown ==
    /\ [](otpMounted = "yes" =>
             /\ countdown \in 0..30
             /\ resendDisabled <=> countdown > 0
             /\ intervals <= 1
             /\ intervals = 1 <=> countdown > 0)
    /\ [][/\ (generatedOtp' # generatedOtp \/ countdown' > countdown) =>
               (resendDisabled' /\ countdown' = 30)
          /\ (tick /\ countdown > 0) => countdown' = countdown - 1
          /\ countdown' < countdown => tick
         ]_allVars

\* C20 witness: the cooldown of a generation has run out: the countdown is
\* 0, resend is enabled and the interval is cleared.
C20_Witness ==
    /\ otpMounted = "yes"
    /\ countdown = 0
    /\ ~resendDisabled
    /\ intervals = 0

\* C21: whenever the mounted component, left without user input, holds a
\* generated code that is not auto-filled yet (after the mount and after
\* every resend), the code is eventually auto-filled into the input; and
\* the mounted component eventually has onVerified invoked (step 4).
C21_AutoFillAndVerify ==
    /\ (otpMounted = "yes" /\ ~autoFill) ~> (autoFill /\ otp = generatedOtp)
    /\ (otpMounted = "yes") ~> (step = 4)

\* C22: a check reports only while the component is mounted, and onVerified
\* is invoked at most once: no check reports correct when the step is
\* already 4 (here only this component's onVerified sets step 4).
C22_OnVerifiedOnceWhileMounted ==
    [][\A t \in checks :
          reports(t) => /\ otpMounted = "yes"
                        /\ matches(t) => step # 4]_allVars

\* The attempts of the hook still under way: comparisons that have not
\* resolved and success timeouts that have not run.
verifications ==
    BagCardinality([t \in pendingFace("compare") \cup pendingFace("onVerified")
                       |-> faceTasks[t]])

\* C23: at most one verification of the hook is under way at any time (so
\* onVerified cannot be invoked twice), and while one is pending no reset
\* timeout of an earlier attempt is left to overwrite its state.
C23_OneVerificationInFlight ==
    /\ verifications <= 1
    /\ verifications = 1 => pendingFace("reset") = {}

\* C24: once no attempt is under way and no reset is pending, the hook is
\* not left with isVerifying true and verificationStatus idle.
C24_NotLeftVerifyingWhileIdle ==
    (verifications = 0 /\ pendingFace("reset") = {}) =>
        ~(isVerifying /\ verificationStatus = "idle")

\* C25: every handleCastVote invocation ends with an outcome shown to the
\* voter (a toast), also when the election, the candidate or the user is
\* missing, and once no invocation is suspended and the elections are
\* fetched isLoading is false.
C25_EveryInvocationSurfaces ==
    /\ invoked = surfaced + BagCardinality(inFlight)
    /\ (invoked > 0 /\ inFlight = EmptyBag /\ ~fetching) => ~isLoading

\* C26: however startWebcam calls follow or overlap each other, at most one
\* acquired stream has live tracks, and while the hook is mounted
\* isCapturing is true only if the stream attached to the video element is
\* live.
C26_OneLiveStream ==
    /\ Cardinality(live) <= 1
    /\ (cameraMounted = "yes" /\ isCapturing) => srcObject \in live

\* C27: once stopWebcam has returned (and startWebcam has not been called
\* again), or once the component is unmounted, no acquired stream is live,
\* and after stopWebcam isCapturing is false.
C27_NothingLiveAfterStop ==
    /\ cameraMounted = "gone" => live = {}
    /\ (cameraMounted = "yes" /\ stopped) => (live = {} /\ ~isCapturing)
====
